---- MODULE Spec2Model ----
(***************************************************************************)
(* State-vector quantum circuit simulator (src/main.rs).                   *)
(*                                                                         *)
(* Three specifications share this module:                                 *)
(*   Spec     the program main(): read the qubit count, the instruction    *)
(*            loop, Circuit::run on the host, Circuit::run on the          *)
(*            accelerator, Circuit::compute_probabilities.                 *)
(*   GateSpec the pure functions Gate::apply and compute_probabilities     *)
(*            applied to state vectors drawn from a bounded set.           *)
(*   CircuitSpec a client of one Circuit that calls add_gate and run in    *)
(*            any order and keeps every vector run returned.               *)
(*                                                                         *)
(* Numbers.  The program computes in f64.  The model computes in a        *)
(* decimal floating point of Precision significant digits with round to    *)
(* nearest, ties to even: a number is <<m, e>>, standing for m * 10^e,     *)
(* m = 0 or m not a multiple of 10 (so equal numbers are equal tuples).    *)
(* Every operation rounds its exact result, as an f64 operation does; 0    *)
(* and 1 and sums with 0 are exact, as they are in f64.  Exponent range    *)
(* (overflow to infinity, subnormals) is not modelled.                     *)
(***************************************************************************)
EXTENDS Integers, Sequences, FiniteSets, TLC

\* ------------------------------------------------------------------ bounds
\* largest small qubit count typed at the prompt (the count 64 is typed as
\* well), and longest instruction list
MaxQubits == 2

MaxGates == 2

\* qubit counts of the vectors the pure functions are applied to
MaxFnQubits == 3

\* calls of Circuit::run one client of a circuit makes
MaxRuns == 2

\* ------------------------------------------------------------- f64 numbers
Precision == 4

Zero == <<0, 0>>

One == <<1, 0>>

AbsInt(a) == IF a < 0 THEN 0 - a ELSE a

SignInt(a) == IF a < 0 THEN 0 - 1 ELSE IF a = 0 THEN 0 ELSE 1

\* number of decimal digits of a >= 1
NumDigits(a) ==
  IF a >= 1000000000 THEN 10
  ELSE CHOOSE d \in 1..9 : 10^(d-1) <= a /\ a < 10^d

\* m * 10^e with the trailing zeros of m moved into the exponent
Strip(m, e) ==
  IF m = 0 THEN Zero
  ELSE LET a == AbsInt(m)
           k == CHOOSE j \in 0..9 :
                  /\ a % (10^j) = 0
                  /\ (j = 9 \/ a % (10^(j+1)) # 0)
       IN  <<SignInt(m) * (a \div (10^k)), e + k>>

\* m * 10^e (plus, when sticky, a nonzero amount below the last digit of m)
\* rounded to Precision digits, ties to even
Round(m, e, sticky) ==
  IF m = 0 THEN Zero
  ELSE LET a == AbsInt(m)
           L == NumDigits(a)
       IN  IF L <= Precision THEN Strip(m, e)
           ELSE LET d    == L - Precision
                    q    == a \div (10^d)
                    r    == a % (10^d)
                    half == 5 * 10^(d-1)
                    up   == r > half \/ (r = half /\ (sticky \/ q % 2 = 1))
                    qq   == IF up THEN q + 1 ELSE q
                IN  Strip(SignInt(m) * qq, e + d)

FNeg(x) == <<0 - x[1], x[2]>>

FAbs(x) == <<AbsInt(x[1]), x[2]>>

\* x + y: the operand of the smaller exponent is y after the swap; when the
\* aligned x would not fit, y lies below half a unit of x's last digit
FAdd(x, y) ==
  IF x[1] = 0 THEN y
  ELSE IF y[1] = 0 THEN x
  ELSE LET hi == IF x[2] >= y[2] THEN x ELSE y
           lo == IF x[2] >= y[2] THEN y ELSE x
           d  == hi[2] - lo[2]
       IN  IF NumDigits(AbsInt(hi[1])) + d >= 10 THEN hi
           ELSE Round(hi[1] * 10^d + lo[1], lo[2], FALSE)

FSub(x, y) == FAdd(x, FNeg(y))

FMul(x, y) == Round(x[1] * y[1], x[2] + y[2], FALSE)

\* x / y, y # 0: the dividend is scaled so that the quotient has more than
\* Precision digits; the remainder is the sticky part
FDiv(x, y) ==
  IF y[1] = 0 THEN "NaN"
  ELSE IF x[1] = 0 THEN Zero
  ELSE LET a  == AbsInt(x[1])
           b  == AbsInt(y[1])
           k  == (Precision - NumDigits(a)) + Precision + 1
           N  == a * 10^k
           q  == N \div b
           r  == N % b
       IN  Round(SignInt(x[1]) * SignInt(y[1]) * q, x[2] - k - y[2], r # 0)

\* largest s with s * s <= a, by bisection on lo..hi
RECURSIVE ISqrt(_, _, _)
ISqrt(a, lo, hi) ==
  IF lo >= hi THEN lo
  ELSE LET mid == (lo + hi + 1) \div 2
       IN  IF mid * mid <= a THEN ISqrt(a, mid, hi) ELSE ISqrt(a, lo, mid - 1)

\* sqrt(x), x >= 0: the mantissa is scaled to 2*Precision or 2*Precision+1
\* digits with an even exponent left over
FSqrt(x) ==
  IF x[1] < 0 THEN "NaN"
  ELSE IF x[1] = 0 THEN Zero
  ELSE LET a  == x[1]
           k0 == 2 * Precision - NumDigits(a)
           k  == IF (x[2] - k0) % 2 = 0 THEN k0 ELSE k0 + 1
           N  == a * 10^k
           s  == ISqrt(N, 0, 46340)
       IN  Round(s, (x[2] - k) \div 2, s * s # N)

FLt(x, y) == FSub(x, y)[1] < 0

\* ---------------------------------------------------------------- Complex64
Cx(re, im) == <<re, im>>

CZero == Cx(Zero, Zero)

COne == Cx(One, Zero)

CAdd(a, b) == Cx(FAdd(a[1], b[1]), FAdd(a[2], b[2]))

CMul(a, b) ==
  Cx(FSub(FMul(a[1], b[1]), FMul(a[2], b[2])),
     FAdd(FMul(a[1], b[2]), FMul(a[2], b[1])))

\* Complex64 / f64
CDivReal(a, r) == Cx(FDiv(a[1], r), FDiv(a[2], r))

norm_sqr(a) == FAdd(FMul(a[1], a[1]), FMul(a[2], a[2]))

\* ------------------------------------------------------------ gate matrices
\* a matrix is a tuple of rows; row r, column c of the source is M[r+1][c+1]
hadamard ==
  LET scale == FDiv(One, FSqrt(<<2, 0>>))
  IN  << <<Cx(scale, Zero), Cx(scale, Zero)>>,
         <<Cx(scale, Zero), Cx(FNeg(scale), Zero)>> >>

t_gate ==
  << <<COne, CZero>>,
     <<CZero, Cx(<<7071, 0 - 4>>, <<7071, 0 - 4>>)>> >>

\* a Pauli X that keeps part of |0> in place
pauli_x_leaky ==
  << <<COne, COne>>,
     <<COne, CZero>> >>

pauli_x ==
  << <<CZero, COne>>,
     <<COne, CZero>> >>

pauli_y ==
  << <<CZero, Cx(Zero, <<0 - 1, 0>>)>>,
     <<Cx(Zero, One), CZero>> >>

pauli_z ==
  << <<COne, CZero>>,
     <<CZero, Cx(<<0 - 1, 0>>, Zero)>> >>

identity ==
  << <<COne, CZero>>,
     <<CZero, COne>> >>

\* the controlled-NOT with the roles of the two bits exchanged
cnot_low_control ==
  << <<COne, CZero, CZero, CZero>>,
     <<CZero, CZero, CZero, COne>>,
     <<CZero, CZero, COne, CZero>>,
     <<CZero, COne, CZero, CZero>> >>

cnot ==
  << <<COne, CZero, CZero, CZero>>,
     <<CZero, COne, CZero, CZero>>,
     <<CZero, CZero, CZero, COne>>,
     <<CZero, CZero, COne, CZero>> >>

\* a SWAP matrix that exchanges nothing
swap_unswapped ==
  << <<COne, CZero, CZero, CZero>>,
     <<CZero, COne, CZero, CZero>>,
     <<CZero, CZero, COne, CZero>>,
     <<CZero, CZero, CZero, COne>> >>

swap ==
  << <<COne, CZero, CZero, CZero>>,
     <<CZero, CZero, COne, CZero>>,
     <<CZero, COne, CZero, CZero>>,
     <<CZero, CZero, CZero, COne>> >>

\* ------------------------------------------------------------- bit indexing
\* the width of usize
UsizeBits == 64

\* 1 << k on usize, overflow checks off: the shift amount is taken modulo the
\* width, so 1 << 64 is 1
Shl1(k) == 2^(k % UsizeBits)

\* 1 << k, overflow checks on: a shift by the width or more panics
ShlOverflows(k) == k >= UsizeBits

\* (i >> k) & 1
BitOf(i, k) == (i \div 2^k) % 2

\* i & !(1 << k)
ClearBit(i, k) == i - BitOf(i, k) * 2^k

\* i | (b << k), b a single bit
OrBit(i, k, b) == IF b = 1 /\ BitOf(i, k) = 0 THEN i + 2^k ELSE i

\* a state vector is a function on 0 .. len-1, as a Vec is
VecLen(v) == Cardinality(DOMAIN v)

ZeroVec(dim) == [i \in 0..(dim - 1) |-> CZero]

\* --------------------------------------------------- single-qubit gate, host
SingleSource(i, target, j) == OrBit(ClearBit(i, target), target, j)

\* state[source_index] stays inside the vector for every i and j
SingleInBounds(state, target, num_qubits) ==
  \A i \in 0..(Shl1(num_qubits) - 1) : \A j \in 0..1 :
    SingleSource(i, target, j) \in DOMAIN state

ApplySingleHost(state, gate, target, num_qubits) ==
  LET dim == Shl1(num_qubits)
  IN  [i \in 0..(dim - 1) |->
         LET target_bit == BitOf(i, target)
             term(j) == CMul(gate[target_bit + 1][j + 1],
                             state[SingleSource(i, target, j)])
         IN  CAdd(CAdd(CZero, term(0)), term(1))]

\* ------------------------------------------------------------ two-qubit gate
TwoSource(i, control, target, j) ==
  OrBit(OrBit(ClearBit(ClearBit(i, control), target), control, j \div 2),
        target, j % 2)

\* state[source_index] stays inside the vector for every i and j
TwoInBounds(state, targets, num_qubits) ==
  \A i \in 0..(Shl1(num_qubits) - 1) : \A j \in 0..3 :
    TwoSource(i, targets[1], targets[2], j) \in DOMAIN state

\* the row index built with the two bits the other way round
apply_two_qubit_gate_row_swapped(state, gate, targets, num_qubits) ==
  LET dim     == Shl1(num_qubits)
      control == targets[1]
      target  == targets[2]
  IN  [i \in 0..(dim - 1) |->
         LET control_bit == BitOf(i, control)
             target_bit  == BitOf(i, target)
             index       == target_bit * 2 + control_bit
             term(j) == CMul(gate[index + 1][j + 1],
                             state[TwoSource(i, control, target, j)])
         IN  CAdd(CAdd(CAdd(CAdd(CZero, term(0)), term(1)), term(2)), term(3))]

\* the caller has checked Len(targets) >= 2 (targets[1] would panic otherwise)
apply_two_qubit_gate(state, gate, targets, num_qubits) ==
  LET dim     == Shl1(num_qubits)
      control == targets[1]
      target  == targets[2]
  IN  [i \in 0..(dim - 1) |->
         LET control_bit == BitOf(i, control)
             target_bit  == BitOf(i, target)
             index       == control_bit * 2 + target_bit
             term(j) == CMul(gate[index + 1][j + 1],
                             state[TwoSource(i, control, target, j)])
         IN  CAdd(CAdd(CAdd(CAdd(CZero, term(0)), term(1)), term(2)), term(3))]

\* --------------------------------------------- single-qubit gate, accelerator
block_size == 128

\* the matrix flattened column by column
FlattenGateByColumn(gate, part) ==
  [k \in 0..3 |-> gate[(k % 2) + 1][(k \div 2) + 1][part]]

\* re_gate / im_gate: the 2x2 matrix row by row (index row * 2 + col)
FlattenGate(gate, part) ==
  [k \in 0..3 |-> gate[(k \div 2) + 1][(k % 2) + 1][part]]

\* re_in / im_in: one component of every amplitude, in index order
FlattenState(state, part) == [i \in DOMAIN state |-> state[i][part]]

\* apply_single_qubit_gate_kernel, one thread: the output amplitude of index
\* idx as the pair <<re, im>>, from the six flat buffers
KernelThread(idx, re_in, im_in, re_gate, im_gate, target) ==
  LET b == BitOf(idx, target)
      re_term(j) ==
        LET src == SingleSource(idx, target, j)
        IN  FSub(FMul(re_gate[b * 2 + j], re_in[src]),
                 FMul(im_gate[b * 2 + j], im_in[src]))
      im_term(j) ==
        LET src == SingleSource(idx, target, j)
        IN  FAdd(FMul(re_gate[b * 2 + j], im_in[src]),
                 FMul(im_gate[b * 2 + j], re_in[src]))
  IN  <<FAdd(FAdd(Zero, re_term(0)), re_term(1)),
        FAdd(FAdd(Zero, im_term(0)), im_term(1))>>

\* the launch: grid_size blocks of block_size threads; the threads whose
\* index is below dim write their own entry of re_out / im_out, which start
\* as zeros; the result is the pair of output buffers
KernelLaunch(grid_size, re_in, im_in, re_gate, im_gate, target, num_qubits) ==
  LET dim     == Shl1(num_qubits)
      threads == 0..(grid_size * block_size - 1)
      out(i)  == IF i \in threads
                 THEN KernelThread(i, re_in, im_in, re_gate, im_gate, target)
                 ELSE <<Zero, Zero>>
  IN  <<[i \in 0..(dim - 1) |-> out(i)[1]], [i \in 0..(dim - 1) |-> out(i)[2]]>>

ApplySingleGpu(state, gate, target, num_qubits) ==
  LET dim       == Shl1(num_qubits)
      re_gate   == FlattenGate(gate, 1)
      im_gate   == FlattenGate(gate, 2)
      re_in     == FlattenState(state, 1)
      im_in     == FlattenState(state, 2)
      grid_size == (dim + block_size - 1) \div block_size
      outs      == KernelLaunch(grid_size, re_in, im_in, re_gate, im_gate,
                                target, num_qubits)
      re_out    == outs[1]
      im_out    == outs[2]
  IN  [i \in 0..(dim - 1) |-> Cx(re_out[i], im_out[i])]

\* a call either returns a state vector or panics (an unwrap on a CUDA
\* failure, an index past the end of targets or of the state vector)
Returned(v) == [panic |-> FALSE, state |-> v]

Panicked == [panic |-> TRUE, state |-> <<>>]

\* device_ok: whether CUDA initialisation, the device, the context, the
\* module, the buffers and the launch all succeed
apply_single_qubit_gate(state, gate, target, num_qubits, use_gpu, device_ok) ==
  IF ~use_gpu
  THEN IF ~SingleInBounds(state, target, num_qubits) THEN Panicked
       ELSE Returned(ApplySingleHost(state, gate, target, num_qubits))
  ELSE IF ~device_ok THEN Panicked
  ELSE Returned(ApplySingleGpu(state, gate, target, num_qubits))

\* ------------------------------------------------------------------- Gate
SingleGates == {"H", "T", "X", "Y", "Z", "ID"}

TwoGates == {"CNOT", "SWAP"}

Gates == SingleGates \cup TwoGates

SingleMatrix(gate) ==
  CASE gate = "H"  -> hadamard
    [] gate = "T"  -> t_gate
    [] gate = "X"  -> pauli_x
    [] gate = "Y"  -> pauli_y
    [] gate = "Z"  -> pauli_z
    [] gate = "ID" -> identity

TwoMatrix(gate) ==
  CASE gate = "CNOT" -> cnot
    [] gate = "SWAP" -> swap

\* targets is a TLA+ sequence: targets[0] of the source is targets[1] here
GateApply(gate, state, targets, num_qubits, use_gpu, device_ok) ==
  IF gate \in SingleGates
  THEN IF Len(targets) < 1 THEN Panicked
       ELSE apply_single_qubit_gate(state, SingleMatrix(gate), targets[1],
                                    num_qubits, use_gpu, device_ok)
  ELSE IF Len(targets) < 2 THEN Panicked
       ELSE IF ~TwoInBounds(state, targets, num_qubits) THEN Panicked
       ELSE Returned(apply_two_qubit_gate(state, TwoMatrix(gate), targets,
                                          num_qubits))

\* ------------------------------------------------------------ Circuit
\* vec![0; 1 << num_qubits] with state[0] = 1
InitialState(num_qubits) ==
  [i \in 0..(Shl1(num_qubits) - 1) |-> IF i = 0 THEN COne ELSE CZero]

\* state.iter().map(norm_sqr).sum(): the sum of the first k entries
RECURSIVE NormSum(_, _)
NormSum(state, k) ==
  IF k = 0 THEN Zero
  ELSE FAdd(NormSum(state, k - 1), norm_sqr(state[k - 1]))

\* a threshold four orders of magnitude lower
NormThresholdLower == <<1, 0 - 16>>

NormThreshold == <<1, 0 - 12>>

\* the result: the table, whether the error line was written to stderr,
\* and whether the amplitudes were divided by the root of the norm
compute_probabilities(state) ==
  LET norm == NormSum(state, VecLen(state))
  IN  IF FLt(FAbs(norm), NormThreshold)
      THEN [probs    |-> [i \in DOMAIN state |-> Zero],
            reported |-> TRUE,
            divided  |-> FALSE]
      ELSE LET normalized_state ==
                 [i \in DOMAIN state |-> CDivReal(state[i], FSqrt(norm))]
           IN  [probs    |-> [i \in DOMAIN state |-> norm_sqr(normalized_state[i])],
                reported |-> FALSE,
                divided  |-> TRUE]

\* ------------------------------------------------------------ input text
\* a string is a sequence of one-character strings
WhiteSpace == {" ", "\t", "\n", "\r"}

DigitChars == <<"0", "1", "2", "3", "4", "5", "6", "7", "8", "9">>

UpperChars == <<"R", "U", "N", "H", "X", "C", "O", "T", "Q">>

LowerChars == <<"r", "u", "n", "h", "x", "c", "o", "t", "q">>

IsDigit(c) == \E k \in 1..10 : DigitChars[k] = c

DigitVal(c) == (CHOOSE k \in 1..10 : DigitChars[k] = c) - 1

\* u8::to_ascii_lowercase on the letters the input alphabet holds
ToAsciiLower(c) ==
  IF \E k \in DOMAIN UpperChars : UpperChars[k] = c
  THEN LowerChars[CHOOSE k \in DOMAIN UpperChars : UpperChars[k] = c]
  ELSE c

eq_ignore_ascii_case(a, b) ==
  /\ Len(a) = Len(b)
  /\ \A k \in 1..Len(a) : ToAsciiLower(a[k]) = ToAsciiLower(b[k])

RECURSIVE TrimStart(_)
TrimStart(s) ==
  IF s # <<>> /\ Head(s) \in WhiteSpace THEN TrimStart(Tail(s)) ELSE s

RECURSIVE TrimEnd(_)
TrimEnd(s) ==
  IF s # <<>> /\ s[Len(s)] \in WhiteSpace
  THEN TrimEnd(SubSeq(s, 1, Len(s) - 1)) ELSE s

Trim(s) == TrimEnd(TrimStart(s))

\* str::split on a set of separator characters: the pieces between
\* separators, empty pieces included; cur is the piece being read
RECURSIVE SplitFrom(_, _, _)
SplitFrom(s, seps, cur) ==
  IF s = <<>> THEN <<cur>>
  ELSE IF Head(s) \in seps THEN <<cur>> \o SplitFrom(Tail(s), seps, <<>>)
  ELSE SplitFrom(Tail(s), seps, Append(cur, Head(s)))

Split(s, seps) == SplitFrom(s, seps, <<>>)

split_whitespace(s) == SelectSeq(Split(s, WhiteSpace), LAMBDA w : w # <<>>)

\* the value of a run of digits read left to right
RECURSIVE DigitsValue(_, _)
DigitsValue(s, acc) ==
  IF s = <<>> THEN acc ELSE DigitsValue(Tail(s), acc * 10 + DigitVal(Head(s)))

ParseFailed == 0 - 1

\* str::parse::<usize>: an optional '+', then one or more digits; anything
\* else is an error (ParseFailed).  Inputs are short: no digit run reaches
\* the overflow of usize
ParseUsize(s) ==
  LET body == IF s # <<>> /\ Head(s) = "+" THEN Tail(s) ELSE s
  IN  IF body # <<>> /\ \A k \in 1..Len(body) : IsDigit(body[k])
      THEN DigitsValue(body, 0)
      ELSE ParseFailed

\* target_str.split(&['[', ']', ',']).filter_map(|s| s.parse().ok()).collect()
ParseTargets(target_str) ==
  LET pieces == Split(target_str, {"[", "]", ","})
      ok     == SelectSeq(pieces, LAMBDA w : ParseUsize(w) # ParseFailed)
  IN  [k \in 1..Len(ok) |-> ParseUsize(ok[k])]

\* gate_map: the entry for a word, or "None"
GateMapGet(word) ==
  CASE word = <<"h">>                -> "H"
    [] word = <<"t">>                -> "T"
    [] word = <<"x">>                -> "X"
    [] word = <<"y">>                -> "Y"
    [] word = <<"z">>                -> "Z"
    [] word = <<"i", "d">>           -> "ID"
    [] word = <<"c", "n", "o", "t">> -> "CNOT"
    [] word = <<"s", "w", "a", "p">> -> "SWAP"
    [] OTHER                         -> "None"

\* one pass of the instruction loop over a line: what it does with it
\*   "break"    the line is run;  "few"  fewer than two words;
\*   "unknown"  the gate name is not in gate_map;
\*   "targets"  no target parsed or a target >= num_qubits;
\*   "add"      add_gate(gate, targets)
ParseLine(line, n) ==
  LET instruction == Trim(line)
      parts       == split_whitespace(instruction)
  IN  IF eq_ignore_ascii_case(instruction, <<"r", "u", "n">>)
      THEN [kind |-> "break", gate |-> "None", targets |-> <<>>]
      ELSE IF Len(parts) < 2
      THEN [kind |-> "few", gate |-> "None", targets |-> <<>>]
      ELSE LET gate    == GateMapGet(parts[1])
               targets == ParseTargets(parts[2])
           IN  IF gate = "None"
               THEN [kind |-> "unknown", gate |-> "None", targets |-> <<>>]
               ELSE IF targets = <<>> \/ \E k \in 1..Len(targets) : targets[k] >= n
               THEN [kind |-> "targets", gate |-> gate, targets |-> targets]
               ELSE [kind |-> "add", gate |-> gate, targets |-> targets]

\* ------------------------------------------------------------ the inputs
\* "q[k]"
Q(k) == <<"q", "[", DigitChars[k + 1], "]">>

\* a word, a blank, a target string and the newline read_line keeps
Line(word, target_str) == word \o <<" ">> \o target_str \o <<"\n">>

SingleWords == {<<"h">>, <<"t">>, <<"x">>, <<"y">>, <<"z">>, <<"i", "d">>}

TwoWords == {<<"c", "n", "o", "t">>, <<"s", "w", "a", "p">>}

\* the lines typed at the qubit-count prompt: the small counts, the first
\* count whose 1 << n does not fit a usize, and a line that is no number
QubitLines ==
  {<<DigitChars[k + 1], "\n">> : k \in 0..MaxQubits}
    \cup {<<"6", "4", "\n">>, <<"q", "\n">>}

\* the qubit counts a circuit is built with
QubitCounts == {ParseUsize(Trim(line)) : line \in QubitLines} \ {ParseFailed, 0}

\* the lines typed at the instruction prompt
InstructionLines ==
  {Line(w, Q(0)) : w \in SingleWords}
    \cup {Line(<<"c", "n", "o", "t">>, t) :
            t \in {Q(0) \o <<",">> \o Q(1), Q(0) \o <<",">> \o Q(0), Q(0)}}
    \cup {Line(<<"s", "w", "a", "p">>, Q(0) \o <<",">> \o Q(1)),
          Line(<<"x">>, Q(1)),
          Line(<<"x">>, Q(2)),
          Line(<<"h">>, Q(0) \o <<",">> \o Q(1)),
          Line(<<"H">>, Q(0)),
          Line(<<"f", "o", "o">>, Q(0)),
          Line(<<"h">>, <<"q">>),
          <<"h", "\n">>,
          <<"\n">>,
          <<"r", "u", "n", " ", "x", "\n">>,
          <<"r", "u", "n", "\n">>,
          <<" ", "R", "u", "N", "\n">>}

\* ------------------------------------------------------------------ state
VARIABLES
  pc,                 \* where main is
  input,              \* the String the last line was read into
  num_qubits,         \* circuit.num_qubits
  gates,              \* circuit.gates
  use_gpu,            \* Circuit::run: its argument
  state,              \* Circuit::run: its local state vector
  run_idx,            \* Circuit::run: instructions the for loop has consumed
  applied,            \* the instructions this run has applied, in order
  final_state_cpu,    \* main: circuit.run(false)
  final_state_gpu,    \* main: circuit.run(true)
  probabilities_cpu,  \* main: compute_probabilities(&final_state_cpu)
  probabilities_gpu,  \* main: compute_probabilities(&final_state_gpu)
  fn_phase,           \* GateSpec: "input", "applied", "repeated", "measured"
  fn_n,               \* GateSpec: the qubit count
  fn_in,              \* GateSpec: the input state vector
  fn_gate,            \* GateSpec: the gate applied
  fn_targets,         \* GateSpec: its targets
  fn_gpu,             \* GateSpec: the strategy
  fn_out,             \* GateSpec: Gate::apply(fn_in)
  fn_out2,            \* GateSpec: Gate::apply(fn_out), same gate and targets
  fn_probs,           \* GateSpec: compute_probabilities(fn_in)
  results,            \* CircuitSpec: what the calls of run made so far returned
  at_call             \* CircuitSpec: the circuit as the call in progress found it

mainVars ==
  <<pc, input, num_qubits, gates, use_gpu, state, run_idx, applied,
    final_state_cpu, final_state_gpu, probabilities_cpu, probabilities_gpu>>

fnVars ==
  <<fn_phase, fn_n, fn_in, fn_gate, fn_targets, fn_gpu, fn_out, fn_out2,
    fn_probs>>

apiVars == <<results, at_call>>

vars == <<mainVars, fnVars, apiVars>>

NoVec == <<>>

NoProbs == [probs |-> NoVec, reported |-> FALSE, divided |-> FALSE]

MainIdle ==
  /\ pc = "off" /\ input = <<>> /\ num_qubits = 0 /\ gates = <<>>
  /\ use_gpu = FALSE /\ state = NoVec /\ run_idx = 0 /\ applied = <<>>
  /\ final_state_cpu = NoVec /\ final_state_gpu = NoVec
  /\ probabilities_cpu = NoProbs /\ probabilities_gpu = NoProbs

FnIdle ==
  /\ fn_phase = "off" /\ fn_n = 0 /\ fn_in = NoVec /\ fn_gate = "None"
  /\ fn_targets = <<>> /\ fn_gpu = FALSE /\ fn_out = NoVec /\ fn_out2 = NoVec
  /\ fn_probs = NoProbs

\* a circuit: the two fields of the struct
CircuitOf(n, gs) == [num_qubits |-> n, gates |-> gs]

ApiIdle == results = <<>> /\ at_call = CircuitOf(0, <<>>)

\* ------------------------------------------------------------------- main
Init ==
  /\ pc = "read_qubits" /\ input = <<>> /\ num_qubits = 0 /\ gates = <<>>
  /\ use_gpu = FALSE /\ state = NoVec /\ run_idx = 0 /\ applied = <<>>
  /\ final_state_cpu = NoVec /\ final_state_gpu = NoVec
  /\ probabilities_cpu = NoProbs /\ probabilities_gpu = NoProbs
  /\ FnIdle
  /\ ApiIdle

\* read the qubit count: a failed read panics (expect) with nothing read, a
\* line that does not parse panics (expect), 0 prints the error and returns,
\* anything else builds Circuit::new(n)
ReadQubits ==
  /\ pc = "read_qubits"
  /\ \/ /\ pc' = "panic"
        /\ UNCHANGED <<input, num_qubits>>
     \/ \E line \in QubitLines :
          LET n == ParseUsize(Trim(line))
          IN  /\ input' = line
              /\ IF n = ParseFailed THEN pc' = "panic" /\ num_qubits' = num_qubits
                 ELSE IF n = 0 THEN pc' = "exit" /\ num_qubits' = n
                 ELSE pc' = "loop" /\ num_qubits' = n
  /\ UNCHANGED <<gates, use_gpu, state, run_idx, applied, final_state_cpu,
                 final_state_gpu, probabilities_cpu, probabilities_gpu>>
  /\ UNCHANGED <<fnVars, apiVars>>

\* ParseLine over the lines and qubit counts of the model, computed once
ParsedLine ==
  [line \in InstructionLines |-> [n \in QubitCounts |-> ParseLine(line, n)]]

\* a push at the front of the list
add_gate_front(gs, gate, targets) ==
  <<[gate |-> gate, targets |-> targets]>> \o gs

\* Circuit::add_gate
add_gate(gs, gate, targets) == Append(gs, [gate |-> gate, targets |-> targets])

\* one pass of the instruction loop: input.clear(), then a failed read
\* panics (expect), and a line read is handled
ReadLine ==
  /\ pc = "loop"
  /\ \/ /\ input' = <<>>
        /\ pc' = "panic"
        /\ gates' = gates
     \/ \E line \in InstructionLines :
          LET r == ParsedLine[line][num_qubits]
          IN  /\ input' = line
              /\ IF r.kind = "break" THEN pc' = "call_cpu" /\ gates' = gates
                 ELSE IF r.kind = "add"
                 THEN /\ Len(gates) < MaxGates
                      /\ pc' = pc
                      /\ gates' = add_gate(gates, r.gate, r.targets)
                 ELSE pc' = pc /\ gates' = gates
  /\ UNCHANGED <<num_qubits, use_gpu, state, run_idx, applied, final_state_cpu,
                 final_state_gpu, probabilities_cpu, probabilities_gpu>>
  /\ UNCHANGED <<fnVars, apiVars>>

\* whether the build checks arithmetic overflow (a debug build does, a
\* release build does not) shows only when a shift overflows; the second run
\* is reached only after the first returned, which a checking build's does
\* not when the shift overflows
OverflowChecks(at, n) ==
  IF ShlOverflows(n) /\ at = "call_cpu" THEN BOOLEAN ELSE {FALSE}

\* a run that goes on from the vector the call before it left
LocalStateKept(left, n) == IF left = NoVec THEN InitialState(n) ELSE left

\* let mut state: a local of this call, whatever vector (left) an earlier
\* call worked on
LocalState(left, n) == InitialState(n)

\* Circuit::run, entry: the initial state vector, or the panic of 1 << n
RunBegin ==
  /\ pc \in {"call_cpu", "call_gpu"}
  /\ use_gpu' = (pc = "call_gpu")
  /\ \E overflow_checks \in OverflowChecks(pc, num_qubits) :
       IF overflow_checks /\ ShlOverflows(num_qubits)
       THEN /\ pc' = "panic"
            /\ UNCHANGED <<state, run_idx, applied>>
       ELSE /\ state' = LocalState(state, num_qubits)
            /\ run_idx' = 0
            /\ applied' = <<>>
            /\ pc' = "in_run"
  /\ UNCHANGED <<input, num_qubits, gates, final_state_cpu, final_state_gpu,
                 probabilities_cpu, probabilities_gpu>>
  /\ UNCHANGED <<fnVars, apiVars>>

\* a for loop that walks the list from its end
NextInstructionReversed(gs, k) == gs[Len(gs) - k]

\* the instruction the for loop yields after k instructions
NextInstruction(gs, k) == gs[k + 1]

\* Circuit::run, one pass of the for loop
RunStep ==
  /\ pc = "in_run"
  /\ run_idx < Len(gates)
  /\ LET instr == NextInstruction(gates, run_idx)
     IN  \E device_ok \in (IF use_gpu /\ instr.gate \in SingleGates
                           THEN BOOLEAN ELSE {TRUE}) :
           LET r == GateApply(instr.gate, state, instr.targets, num_qubits,
                              use_gpu, device_ok)
           IN  IF r.panic
               THEN /\ pc' = "panic"
                    /\ UNCHANGED <<state, run_idx, applied>>
               ELSE /\ pc' = pc
                    /\ state' = r.state
                    /\ run_idx' = run_idx + 1
                    /\ applied' = Append(applied, instr)
  /\ UNCHANGED <<input, num_qubits, gates, use_gpu, final_state_cpu,
                 final_state_gpu, probabilities_cpu, probabilities_gpu>>
  /\ UNCHANGED <<fnVars, apiVars>>

\* Circuit::run returns its state vector to main
RunReturn ==
  /\ pc = "in_run"
  /\ run_idx = Len(gates)
  /\ IF use_gpu
     THEN /\ final_state_gpu' = state
          /\ pc' = "probs"
          /\ UNCHANGED final_state_cpu
     ELSE /\ final_state_cpu' = state
          /\ pc' = "call_gpu"
          /\ UNCHANGED final_state_gpu
  /\ UNCHANGED <<input, num_qubits, gates, use_gpu, state, run_idx, applied,
                 probabilities_cpu, probabilities_gpu>>
  /\ UNCHANGED <<fnVars, apiVars>>

\* main: the two probability tables, then the printing
Measure ==
  /\ pc = "probs"
  /\ probabilities_cpu' = compute_probabilities(final_state_cpu)
  /\ probabilities_gpu' = compute_probabilities(final_state_gpu)
  /\ pc' = "done"
  /\ UNCHANGED <<input, num_qubits, gates, use_gpu, state, run_idx, applied,
                 final_state_cpu, final_state_gpu>>
  /\ UNCHANGED <<fnVars, apiVars>>

Next == ReadQubits \/ ReadLine \/ RunBegin \/ RunStep \/ RunReturn \/ Measure

Spec == Init /\ [][Next]_vars

\* ------------------------------------------------------ the pure functions
\* |i> on n qubits
Basis(n, i) == [k \in 0..(2^n - 1) |-> IF k = i THEN COne ELSE CZero]

\* every amplitude different: (k + 1) - k i at index k
Ramp(n) == [k \in 0..(2^n - 1) |-> Cx(Strip(k + 1, 0), Strip(0 - k, 0))]

\* (0.5 - 0.5 i) at the even indices, i at the odd ones
Mixed(n) ==
  [k \in 0..(2^n - 1) |->
     IF k % 2 = 0 THEN Cx(<<5, 0 - 1>>, <<0 - 5, 0 - 1>>) ELSE Cx(Zero, One)]

\* one amplitude a at index 0, the rest 0
Single(n, a) == [k \in 0..(2^n - 1) |-> IF k = 0 THEN Cx(a, Zero) ELSE CZero]

\* every amplitude a i
Flat(n, a) == [k \in 0..(2^n - 1) |-> Cx(Zero, a)]

InputVectors(n) ==
  {Basis(n, i) : i \in 0..(2^n - 1)}
    \cup {ZeroVec(2^n), Ramp(n), Mixed(n),
          Single(n, <<1, 0 - 6>>), Single(n, <<1, 0 - 7>>),
          Flat(n, <<1, 0 - 8>>)}

\* the target lists the instruction loop lets through for n qubits: one or
\* two indices below n
TargetLists(n) ==
  {<<a>> : a \in 0..(n - 1)} \cup {<<a, b>> : a \in 0..(n - 1), b \in 0..(n - 1)}

GateInit ==
  /\ MainIdle
  /\ ApiIdle
  /\ fn_phase = "input"
  /\ fn_n \in 1..MaxFnQubits
  /\ fn_in \in InputVectors(fn_n)
  /\ fn_gate = "None" /\ fn_targets = <<>> /\ fn_gpu = FALSE
  /\ fn_out = NoVec /\ fn_out2 = NoVec /\ fn_probs = NoProbs

\* Gate::apply on the input vector
FnApply ==
  /\ fn_phase = "input"
  /\ \E gate \in Gates, targets \in TargetLists(fn_n), gpu \in BOOLEAN :
       \E device_ok \in (IF gpu /\ gate \in SingleGates THEN BOOLEAN ELSE {TRUE}) :
         LET r == GateApply(gate, fn_in, targets, fn_n, gpu, device_ok)
         IN  /\ fn_gate' = gate
             /\ fn_targets' = targets
             /\ fn_gpu' = gpu
             /\ IF r.panic
                THEN fn_phase' = "panic" /\ fn_out' = fn_out
                ELSE fn_phase' = "applied" /\ fn_out' = r.state
  /\ UNCHANGED <<fn_n, fn_in, fn_out2, fn_probs>>
  /\ UNCHANGED <<mainVars, apiVars>>

\* the same gate, targets and strategy applied to the result
FnRepeat ==
  /\ fn_phase = "applied"
  /\ \E device_ok \in (IF fn_gpu /\ fn_gate \in SingleGates
                       THEN BOOLEAN ELSE {TRUE}) :
       LET r == GateApply(fn_gate, fn_out, fn_targets, fn_n, fn_gpu, device_ok)
       IN  IF r.panic
           THEN fn_phase' = "panic" /\ fn_out2' = fn_out2
           ELSE fn_phase' = "repeated" /\ fn_out2' = r.state
  /\ UNCHANGED <<fn_n, fn_in, fn_gate, fn_targets, fn_gpu, fn_out, fn_probs>>
  /\ UNCHANGED <<mainVars, apiVars>>

\* compute_probabilities on the input vector
FnMeasure ==
  /\ fn_phase = "input"
  /\ fn_probs' = compute_probabilities(fn_in)
  /\ fn_phase' = "measured"
  /\ UNCHANGED <<fn_n, fn_in, fn_gate, fn_targets, fn_gpu, fn_out, fn_out2>>
  /\ UNCHANGED <<mainVars, apiVars>>

GateNext == FnApply \/ FnRepeat \/ FnMeasure

GateSpec == GateInit /\ [][GateNext]_vars

\* ------------------------------------------------- a client of one Circuit
\* the instructions the client adds: valid ones, on the first two qubits
ApiInstructions(n) ==
  {[gate |-> g, targets |-> <<0>>] : g \in {"H", "X"}}
    \cup (IF n >= 2
          THEN {[gate |-> "CNOT", targets |-> <<0, 1>>]}
          ELSE {})

\* Circuit::new(n), no call made yet; n is a count whose 1 << n fits a usize
\* (what run does with the others is part of Spec)
ApiInit ==
  /\ pc = "api" /\ input = <<>> /\ num_qubits \in 1..MaxQubits /\ gates = <<>>
  /\ use_gpu = FALSE /\ state = NoVec /\ run_idx = 0 /\ applied = <<>>
  /\ final_state_cpu = NoVec /\ final_state_gpu = NoVec
  /\ probabilities_cpu = NoProbs /\ probabilities_gpu = NoProbs
  /\ FnIdle
  /\ ApiIdle

\* circuit.add_gate(gate, targets), between two calls of run
ApiAddGate ==
  /\ pc = "api"
  /\ Len(gates) < MaxGates
  /\ \E instr \in ApiInstructions(num_qubits) :
       gates' = add_gate(gates, instr.gate, instr.targets)
  /\ UNCHANGED <<pc, input, num_qubits, use_gpu, state, run_idx, applied,
                 final_state_cpu, final_state_gpu, probabilities_cpu,
                 probabilities_gpu>>
  /\ UNCHANGED <<fnVars, apiVars>>

\* circuit.run(gpu) is called
ApiCallRun ==
  /\ pc = "api"
  /\ Len(results) < MaxRuns
  /\ \E gpu \in BOOLEAN : pc' = IF gpu THEN "call_gpu" ELSE "call_cpu"
  /\ at_call' = CircuitOf(num_qubits, gates)
  /\ UNCHANGED <<input, num_qubits, gates, use_gpu, state, run_idx, applied,
                 final_state_cpu, final_state_gpu, probabilities_cpu,
                 probabilities_gpu, results>>
  /\ UNCHANGED fnVars

\* Circuit::run returns its state vector to the client
ApiRunReturn ==
  /\ pc = "in_run"
  /\ run_idx = Len(gates)
  /\ results' = Append(results, [use_gpu |-> use_gpu, called |-> at_call,
                                 left |-> CircuitOf(num_qubits, gates),
                                 state |-> state])
  /\ pc' = "api"
  /\ UNCHANGED <<input, num_qubits, gates, use_gpu, state, run_idx, applied,
                 final_state_cpu, final_state_gpu, probabilities_cpu,
                 probabilities_gpu, at_call>>
  /\ UNCHANGED fnVars

ApiNext == ApiAddGate \/ ApiCallRun \/ RunBegin \/ RunStep \/ ApiRunReturn

CircuitSpec == ApiInit /\ [][ApiNext]_vars

\* ================================================================= claims
\* the amplitudes 1 and 0, written out
AmpOne == <<<<1, 0>>, <<0, 0>>>>

AmpZero == <<<<0, 0>>, <<0, 0>>>>

\* v is the basis state |i> of n qubits: 2^n entries, which no vector has
\* when a usize cannot hold 2^n
IsBasis(v, n, i) ==
  /\ n < UsizeBits
  /\ DOMAIN v = 0..(2^n - 1)
  /\ \A k \in 0..(2^n - 1) : v[k] = IF k = i THEN AmpOne ELSE AmpZero

\* bit k of i, and i with bit k flipped
Bit(i, k) == (i \div (2^k)) % 2

Flip(i, k) == IF Bit(i, k) = 1 THEN i - 2^k ELSE i + 2^k

\* |0...0> written out: 2^n entries; where a usize cannot hold 2^n, as many
\* entries as v has (which length run gives the vector then is the subject
\* of C11)
KetZero(n, v) ==
  LET len == IF n < UsizeBits THEN 2^n ELSE VecLen(v)
  IN  [i \in 0..(len - 1) |-> IF i = 0 THEN AmpOne ELSE AmpZero]

\* the left-to-right fold of Gate::apply over the first k instructions of
\* gs, starting from the vector start
RECURSIVE FoldGates(_, _, _, _, _)
FoldGates(start, gs, k, n, gpu) ==
  IF k = 0 THEN Returned(start)
  ELSE LET before == FoldGates(start, gs, k - 1, n, gpu)
       IN  IF before.panic THEN Panicked
           ELSE GateApply(gs[k].gate, before.state, gs[k].targets, n, gpu, TRUE)

Instr(gate, targets) == [gate |-> gate, targets |-> targets]

\* C1: Circuit::run returns the left-to-right fold of gate application over
\* the instruction list in add_gate order, starting from |0...0>: while it
\* runs it has applied exactly the first run_idx instructions, in order, each
\* once; the vector it ends with, and main receives, is the fold over the
\* whole list; on one qubit [H(0), X(0)] and [X(0), H(0)] return different
\* vectors.
C1_RunIsFold ==
  LET s == hadamard[1][1]
      m == hadamard[2][2]
  IN  /\ pc = "in_run" => applied = SubSeq(gates, 1, run_idx)
      /\ (pc = "in_run" /\ run_idx = Len(gates)) =>
           state = FoldGates(KetZero(num_qubits, state), gates, Len(gates),
                             num_qubits, use_gpu).state
      /\ pc = "call_gpu" =>
           final_state_cpu =
             FoldGates(KetZero(num_qubits, final_state_cpu), gates, Len(gates),
                       num_qubits, FALSE).state
      /\ pc = "probs" =>
           final_state_gpu =
             FoldGates(KetZero(num_qubits, final_state_gpu), gates, Len(gates),
                       num_qubits, TRUE).state
      /\ (final_state_cpu # NoVec /\ num_qubits = 1
            /\ gates = <<Instr("H", <<0>>), Instr("X", <<0>>)>>) =>
           final_state_cpu = [i \in 0..1 |-> s]
      /\ (final_state_cpu # NoVec /\ num_qubits = 1
            /\ gates = <<Instr("X", <<0>>), Instr("H", <<0>>)>>) =>
           final_state_cpu = [i \in 0..1 |-> IF i = 0 THEN s ELSE m]
      /\ s # m

C1_Witness ==
  /\ pc = "done"
  /\ num_qubits = 1
  /\ gates = <<Instr("X", <<0>>), Instr("H", <<0>>)>>
  /\ final_state_cpu # NoVec
  /\ final_state_cpu[0] # final_state_cpu[1]

\* C2: the state vector run builds before it applies any instruction has
\* length 2^n, amplitude 1 at index 0 and 0 elsewhere, and so has the result
\* of run on an empty instruction list.
C2_InitialState ==
  /\ (pc = "in_run" /\ run_idx = 0) => IsBasis(state, num_qubits, 0)
  /\ (gates = <<>> /\ final_state_cpu # NoVec) =>
       IsBasis(final_state_cpu, num_qubits, 0)
  /\ (gates = <<>> /\ final_state_gpu # NoVec) =>
       IsBasis(final_state_gpu, num_qubits, 0)

Arity(gate) == IF gate \in {"CNOT", "SWAP"} THEN 2 ELSE 1

\* C3: every instruction in the circuit's instruction list has a target list
\* as long as its gate's arity and every target index is in [0, n); Gate::apply
\* never reads a target position that is absent.
C3_ArityAndRange ==
  /\ \A k \in 1..Len(gates) :
       /\ Len(gates[k].targets) = Arity(gates[k].gate)
       /\ \A j \in 1..Len(gates[k].targets) :
            gates[k].targets[j] >= 0 /\ gates[k].targets[j] < num_qubits
  /\ (pc = "in_run" /\ run_idx < Len(gates)) =>
       Len(gates[run_idx + 1].targets) >= Arity(gates[run_idx + 1].gate)

\* C4: a CNOT or SWAP whose two qubit indices are equal is never appended to
\* the circuit, so apply_two_qubit_gate is never called with
\* targets[0] = targets[1].
C4_DistinctTargets ==
  \A k \in 1..Len(gates) :
    (gates[k].gate \in {"CNOT", "SWAP"} /\ Len(gates[k].targets) >= 2) =>
      gates[k].targets[1] # gates[k].targets[2]

\* the gate was applied once to the input vector, with two different targets
AppliedTwo(gate) ==
  /\ fn_phase \in {"applied", "repeated"}
  /\ fn_gate = gate
  /\ Len(fn_targets) = 2
  /\ fn_targets[1] # fn_targets[2]

\* C5: CNOT with targets [c, t], c # t, takes the basis state |i> to the
\* basis state |i'>, i' = i with bit t flipped when bit c of i is 1, i' = i
\* otherwise; control 0, target 1 takes index 1 to index 3.
C5_CnotOnBasis ==
  AppliedTwo("CNOT") =>
    LET c == fn_targets[1]
        t == fn_targets[2]
    IN  /\ \A i \in 0..(2^fn_n - 1) :
             IsBasis(fn_in, fn_n, i) =>
               IsBasis(fn_out, fn_n, IF Bit(i, c) = 1 THEN Flip(i, t) ELSE i)
        /\ (fn_n = 2 /\ c = 0 /\ t = 1 /\ IsBasis(fn_in, 2, 1)) =>
             IsBasis(fn_out, 2, 3)

C5_Witness ==
  /\ fn_phase = "applied"
  /\ fn_gate = "CNOT"
  /\ fn_n = 2
  /\ fn_targets = <<0, 1>>
  /\ IsBasis(fn_in, 2, 1)
  /\ IsBasis(fn_out, 2, 3)

\* C6: SWAP with targets [a, b], a # b, takes the basis state |i> to the
\* basis state whose index is i with bit a and bit b exchanged, and gives
\* the result that SWAP with targets [b, a] gives.
C6_SwapOnBasis ==
  AppliedTwo("SWAP") =>
    LET a == fn_targets[1]
        b == fn_targets[2]
    IN  /\ \A i \in 0..(2^fn_n - 1) :
             IsBasis(fn_in, fn_n, i) =>
               IsBasis(fn_out, fn_n,
                       IF Bit(i, a) = Bit(i, b) THEN i ELSE Flip(Flip(i, a), b))
        /\ fn_out = GateApply("SWAP", fn_in, <<b, a>>, fn_n, fn_gpu, TRUE).state

C6_Witness ==
  /\ fn_phase = "applied"
  /\ fn_gate = "SWAP"
  /\ fn_n = 2
  /\ fn_targets = <<1, 0>>
  /\ IsBasis(fn_in, 2, 1)
  /\ IsBasis(fn_out, 2, 2)

\* C7: SWAP applied twice with the same two different targets, or CNOT
\* applied twice with the same control and target, returns the original
\* state vector at every index.
C7_Involution ==
  (fn_phase = "repeated" /\ (AppliedTwo("CNOT") \/ AppliedTwo("SWAP"))) =>
    /\ DOMAIN fn_out2 = DOMAIN fn_in
    /\ \A i \in DOMAIN fn_in : fn_out2[i] = fn_in[i]

C7_Witness ==
  /\ fn_phase = "repeated"
  /\ AppliedTwo("CNOT")
  /\ fn_n = 2
  /\ fn_in = Ramp(2)
  /\ fn_out # fn_in
  /\ fn_out2 = fn_in

\* C8: Pauli X on qubit t, on the host, takes the basis state |i> to the
\* basis state |i XOR 2^t>, with amplitude exactly 0 at every other index;
\* X on qubit 0 of |0> with one qubit gives (0, 1).
C8_PauliXOnBasis ==
  (fn_phase \in {"applied", "repeated"} /\ fn_gate = "X" /\ ~fn_gpu) =>
    LET t == fn_targets[1]
    IN  /\ \A i \in 0..(2^fn_n - 1) :
             IsBasis(fn_in, fn_n, i) => IsBasis(fn_out, fn_n, Flip(i, t))
        /\ (fn_n = 1 /\ IsBasis(fn_in, 1, 0)) =>
             (fn_out[0] = AmpZero /\ fn_out[1] = AmpOne)

C8_Witness ==
  /\ fn_phase = "applied"
  /\ fn_gate = "X"
  /\ ~fn_gpu
  /\ fn_n = 1
  /\ fn_targets = <<0>>
  /\ IsBasis(fn_in, 1, 0)
  /\ IsBasis(fn_out, 1, 1)

RECURSIVE SquaredNorm(_, _)
SquaredNorm(v, k) ==
  IF k = 0 THEN <<0, 0>>
  ELSE FAdd(SquaredNorm(v, k - 1),
            FAdd(FMul(v[k - 1][1], v[k - 1][1]), FMul(v[k - 1][2], v[k - 1][2])))

\* C10: on a state whose total squared norm is below 1e-12 (the all-zero
\* state among them) compute_probabilities reports the condition and returns
\* a table as long as the state with every entry 0, without dividing.
C10_DegenerateState ==
  (fn_phase = "measured"
     /\ FLt(SquaredNorm(fn_in, Cardinality(DOMAIN fn_in)), <<1, 0 - 12>>)) =>
    /\ fn_probs.reported
    /\ ~fn_probs.divided
    /\ DOMAIN fn_probs.probs = DOMAIN fn_in
    /\ \A i \in DOMAIN fn_in : fn_probs.probs[i] = <<0, 0>>

C10_Witness ==
  /\ fn_phase = "measured"
  /\ fn_n = 2
  /\ fn_in = Single(2, <<1, 0 - 7>>)
  /\ fn_probs.reported
  /\ fn_probs.probs = [i \in 0..3 |-> <<0, 0>>]

\* the qubit counts the design rejects: zero, and those whose 2^n a usize
\* cannot hold
InvalidDimension(n) == n = 0 \/ ShlOverflows(n)

\* C11: a qubit count of 0, or one so large that 2^n is not representable,
\* is refused with an explicit result: main goes no further than the error
\* return, nothing panics, and no state vector is built; every state vector
\* that is built has exactly 2^n entries.
C11_InvalidDimension ==
  /\ (pc \notin {"read_qubits", "panic"} /\ num_qubits = 0) => pc = "exit"
  /\ ShlOverflows(num_qubits) =>
       (pc \in {"loop", "call_cpu", "exit"} /\ state = NoVec)
  /\ state # NoVec =>
       (~InvalidDimension(num_qubits) /\ VecLen(state) = 2^num_qubits)

\* C12: Circuit::run is a pure fold over the instruction list as the call
\* finds it: it leaves num_qubits and the list as they were, every call
\* starts from |0...0> whatever the calls before it did, every vector
\* returned is (and stays, through every later add_gate and run) the fold
\* over the list of its own call, and two calls with the same strategy on
\* the same list have returned equal vectors.
C12_RunIsPure ==
  /\ pc \in {"call_cpu", "call_gpu", "in_run"} =>
       CircuitOf(num_qubits, gates) = at_call
  /\ (pc = "in_run" /\ run_idx = 0) => state = KetZero(num_qubits, state)
  /\ \A k \in 1..Len(results) :
       LET r == results[k]
       IN  /\ r.left = r.called
           /\ r.state = FoldGates(KetZero(r.called.num_qubits, r.state),
                                  r.called.gates, Len(r.called.gates),
                                  r.called.num_qubits, r.use_gpu).state
  /\ \A j, k \in 1..Len(results) :
       (results[j].use_gpu = results[k].use_gpu
          /\ results[j].called = results[k].called) =>
         results[j].state = results[k].state

C12_Witness ==
  /\ pc = "api"
  /\ Len(results) = 2
  /\ results[1].use_gpu = results[2].use_gpu
  /\ results[1].called = results[2].called
  /\ results[1].called.gates # <<>>
  /\ results[1].state # KetZero(num_qubits, results[1].state)
  /\ Len(gates) > Len(results[1].called.gates)

\* the words of a line, and whether the line is run
Tokens(line) == split_whitespace(Trim(line))

IsRunLine(line) == eq_ignore_ascii_case(Trim(line), <<"r", "u", "n">>)

\* the keys of the gate map
GateNames ==
  {<<"h">>, <<"t">>, <<"x">>, <<"y">>, <<"z">>, <<"i", "d">>,
   <<"c", "n", "o", "t">>, <<"s", "w", "a", "p">>}

\* a line the loop rejects on n qubits: fewer than two words, a gate name
\* that is no key of the gate map, no target index that parses, or a target
\* index >= n
RejectedLine(line, n) ==
  \/ Len(Tokens(line)) < 2
  \/ Tokens(line)[1] \notin GateNames
  \/ LET indices == ParseTargets(Tokens(line)[2])
     IN  indices = <<>> \/ \E k \in 1..Len(indices) : indices[k] >= n

\* what the claim expects of each line of the model on each qubit count
LineVerdict ==
  [line \in InstructionLines |->
     [n \in QubitCounts |->
        IF IsRunLine(line) THEN "run"
        ELSE IF RejectedLine(line, n) THEN "rejected" ELSE "accepted"]]

\* C13: in the instruction loop a rejected line leaves the instruction list
\* as it is and the loop reads on; an accepted line puts exactly one
\* instruction at the end of the list, the entries before it unchanged, and
\* the loop reads on; the loop goes on to the runs only on a line that is run
\* ignoring ASCII case (surrounding white space trimmed); and while the
\* program reads, before that line, no run has started.
C13_InstructionLoop ==
  [][/\ (pc = "loop" /\ pc' # "panic") =>
          LET verdict == LineVerdict[input'][num_qubits]
          IN  /\ verdict = "rejected" => (gates' = gates /\ pc' = "loop")
              /\ verdict = "accepted" =>
                   /\ pc' = "loop"
                   /\ Len(gates') = Len(gates) + 1
                   /\ SubSeq(gates', 1, Len(gates)) = gates
              /\ verdict = "run" => (gates' = gates /\ pc' = "call_cpu")
              /\ pc' # "loop" => verdict = "run"
     /\ pc' \in {"call_cpu", "call_gpu", "in_run", "probs", "done"} =>
          (pc \in {"call_cpu", "call_gpu", "in_run", "probs"}
             \/ (pc = "loop" /\ IsRunLine(input')))
     /\ pc' \in {"read_qubits", "loop"} =>
          (state' = NoVec /\ final_state_cpu' = NoVec
             /\ final_state_gpu' = NoVec)]_vars

C13_Witness ==
  /\ pc = "loop"
  /\ Len(gates) = 2
  /\ gates[1] # gates[2]
  /\ input \in InstructionLines
  /\ LineVerdict[input][num_qubits] = "rejected"

====
